---- MODULE Spec2Model ----
(***************************************************************************)
(* gugle-event: the listener registry (EventManager), its listener entries *)
(* (EventListener) and the cancellation token (Cancelable) of              *)
(* src/src/index.ts, as a state machine.                                   *)
(*                                                                         *)
(* The host is single-threaded JavaScript.  post() is an async function    *)
(* without any await, so its whole loop runs on the caller's stack: an     *)
(* external call (listen, remove, post) and a deferred continuation        *)
(* (a microtask) start only while no dispatch loop is running.             *)
(***************************************************************************)
EXTENDS Integers, Sequences, FiniteSets, TLC

\* ------------------------------------------------------------------ bounds
\* Upper bound on the number of external listen calls.
MaxListens == 3
\* Upper bound on the deferred continuations pending at one time.
MaxDeferred == 1
\* Upper bound on the number of external listen calls made on the chain of
\* three registries.
MaxTreeListens == 2

\* ------------------------------------------------------- program constants
\* listen(): priority: number = 100
DefaultPriority == 100
\* listen(): namespace: string = 'gugle-event'
DefaultNamespace == "gugle-event"
\* listen(): cancelable: boolean = false
DefaultCancelable == FALSE
\* post(): Promise.reject('Event canceled!')
CanceledReason == "Event canceled!"

\* ------------------------------------------------------------------ inputs
\* Three registries built as new EventManager(), new EventManager(root),
\* new EventManager(mid).
Managers == {"root", "mid", "leaf"}
NoManager == "null"
Events == {"x", "y"}
Namespaces == {"n1", "n2", DefaultNamespace}
\* The argument lists post is called with.
ArgLists == {<<>>, <<1, 2>>}
\* The (callback, namespace, priority, cancelable) a listen call is made with:
\* A, B, C of the documented scenario and a listener with every default.
ListenArgs ==
    { [callback |-> "A", namespace |-> "n1", priority |-> 50, cancelable |-> FALSE],
      [callback |-> "B", namespace |-> "n1", priority |-> 50, cancelable |-> TRUE],
      [callback |-> "C", namespace |-> "n2", priority |-> 10, cancelable |-> FALSE],
      [callback |-> "D", namespace |-> DefaultNamespace, priority |-> DefaultPriority,
       cancelable |-> DefaultCancelable] }
\* What an opaque callback does when it is invoked: it returns, it calls
\* cancel() on the token it was handed before returning, or it returns after
\* scheduling a continuation that calls cancel() on the token later.
Behaviours == {"return", "cancel", "defer"}
\* What else a callback can do: throw, call listen for the posted event on the
\* registry that is dispatching, or call cancel() on the token of an earlier
\* post that it kept.
Callbacks == Behaviours \cup {"throw", "listen", "stale"}

VARIABLES
    eventListeners, \* manager -> Map<string, EventListener[]> (a function on the keys present)
    cancelables,    \* the live Cancelable objects: token id -> [event, canceled]
    deferred,       \* pending continuations, each about to cancel() the token it holds
    call,           \* the external call being served, or the last one served
    pc,             \* "idle", or "loop" while post's for-of loop is running
    idx,            \* the for-of loop's next index (1-based)
    token,          \* the id of the Cancelable created by the running / last post
    invoked,        \* the invocations the running / last post has made, in order
    result,         \* the running / last post's promise
    rejected        \* [event, reason] of the posts rejected as canceled since the registries last changed

vars == <<eventListeners, cancelables, deferred, call, pc, idx, token, invoked, result, rejected>>

\* ------------------------------------------------------------ EventManager
\* constructor(parent): this.parent = parent
parent(m) ==
    CASE m = "leaf" -> "mid"
      [] m = "mid"  -> "root"
      [] OTHER      -> NoManager

\* The registries a listen on m reaches: m, then its parent, recursively.
RECURSIVE Chain(_)
Chain(m) == IF m = NoManager THEN {} ELSE {m} \cup Chain(parent(m))

Ancestors(m) == Chain(m) \ {m}

\* ----------------------------------------------------------- EventListener
\* new EventListener(namespace, callback, priority, cancelable).  id stands
\* for the object's identity within its bucket (the order of creation there)
\* and origin for the registry the external listen call was made on; neither
\* is read by the program.
NewListener(l, id, origin) ==
    [namespace |-> l.namespace, callback |-> l.callback, priority |-> l.priority,
     cancelable |-> l.cancelable, id |-> id, origin |-> origin]

\* The fields listen was given, without the model's id and origin.
Fields(a) ==
    [callback |-> a.callback, namespace |-> a.namespace, priority |-> a.priority,
     cancelable |-> a.cancelable]

\* compare with the operands of the subtraction exchanged.
compare_Descending(a, b) ==
    IF a.priority = b.priority /\ a.cancelable THEN -1
    ELSE IF a.priority = b.priority /\ b.cancelable THEN 1
    ELSE b.priority - a.priority

\* compare without the tie-break on cancelable.
compare_PriorityOnly(a, b) == a.priority - b.priority

\* EventListener.compare(a, b)
compare(a, b) ==
    LET priorityA == a.priority
        priorityB == b.priority
    IN  IF priorityA = priorityB /\ a.cancelable THEN -1
        ELSE IF priorityA = priorityB /\ b.cancelable THEN 1
        ELSE priorityA - priorityB

\* The permutations of 1..n.
Permutations1(n) == { p \in [1..n -> 1..n] : \A i, j \in 1..n : p[i] = p[j] => i = j }

\* s rearranged by the permutation p.
Permuted(s, p) == [i \in 1..Len(s) |-> s[p[i]]]

\* Array.prototype.sort(comparefn), the outcomes an engine can produce: a
\* permutation of s in which no element is placed after one that comparefn
\* puts it strictly before (in whichever order the two are passed), and which
\* keeps the order of elements that compare equal (the sort is stable).
\* Where comparefn contradicts itself on a pair (compare(a, b) < 0 and
\* compare(b, a) < 0: two cancelable listeners of one priority) the order of
\* the pair is implementation-defined, so either order is an outcome.
sort(s) ==
    { Permuted(s, p) : p \in
        { q \in Permutations1(Len(s)) :
            \A i, j \in 1..Len(s) : i < j =>
                /\ compare(s[q[i]], s[q[j]]) <= 0
                /\ (compare(s[q[i]], s[q[j]]) = 0 /\ compare(s[q[j]], s[q[i]]) = 0)
                      => q[i] < q[j] } }

\* this.eventListeners.has(event)
has(map, event) == event \in DOMAIN map

\* this.eventListeners.set(event, value)
set(map, event, value) ==
    [k \in DOMAIN map \cup {event} |-> IF k = event THEN value ELSE map[k]]

\* this.eventListeners.delete(event)
delete(map, event) == [k \in DOMAIN map \ {event} |-> map[k]]

\* The id of the next EventListener created in a bucket.
NextId(bucket) ==
    IF bucket = <<>> THEN 1
    ELSE 1 + CHOOSE n \in { bucket[i].id : i \in 1..Len(bucket) } :
                 \A i \in 1..Len(bucket) : bucket[i].id <= n

\* listen pushing the new listener without sorting the bucket again.
listenOne_NoSort(map, event, l, origin) ==
    LET created == IF ~has(map, event) THEN set(map, event, <<>>) ELSE map
        listeners == created[event]
    IN  { set(created, event, Append(listeners, NewListener(l, NextId(listeners), origin))) }

\* listen ignoring a callback the bucket already holds.
listenOne_Dedup(map, event, l, origin) ==
    LET created == IF ~has(map, event) THEN set(map, event, <<>>) ELSE map
        listeners == created[event]
        pushed == Append(listeners, NewListener(l, NextId(listeners), origin))
    IN  IF \E i \in 1..Len(listeners) : listeners[i].callback = l.callback
        THEN {map}
        ELSE { set(created, event, sorted) : sorted \in sort(pushed) }

\* The maps one registry can hold after listen(event, l): has / set / get /
\* push / sort on this registry alone.
listenOne(map, event, l, origin) ==
    LET created == IF ~has(map, event) THEN set(map, event, <<>>) ELSE map
        listeners == created[event]
        pushed == Append(listeners, NewListener(l, NextId(listeners), origin))
    IN  { set(created, event, sorted) : sorted \in sort(pushed) }

\* listen without the call of this.parent.listen.
listenFrom_NoParent(regs, m, event, l, origin) ==
    { [regs EXCEPT ![m] = one] : one \in listenOne(regs[m], event, l, origin) }

\* if (this.parent) this.parent.listen(...): the registry states after the
\* call on m and the recursion into its ancestors; origin is the registry the
\* external call was made on.
RECURSIVE listenFrom(_, _, _, _, _)
listenFrom(regs, m, event, l, origin) ==
    IF m = NoManager THEN {regs}
    ELSE UNION { listenFrom([regs EXCEPT ![m] = one], parent(m), event, l, origin) :
                    one \in listenOne(regs[m], event, l, origin) }

\* EventManager.listen(event, callback, namespace, priority, cancelable) on m.
listen(regs, m, event, l) == listenFrom(regs, m, event, l, m)

\* for (let key in this.eventListeners): the enumerable string-keyed
\* properties of the Map object.  A Map keeps its entries in its internal
\* [[MapData]] slot, not as properties, so for-in enumerates none of them.
forInKeys(map) == {}

\* if (listener.getNamespace() !== namespace) listeners.push(listener): the
\* listeners of another namespace, in order.
SelectSeq2(s, ns) == SelectSeq(s, LAMBDA a : a.namespace # ns)

\* remove's loop over the keys still to visit: the bucket of each is replaced
\* by the listeners kept, or deleted when none is kept.
RECURSIVE removeKeys(_, _, _)
removeKeys(map, keys, namespace) ==
    IF keys = {} THEN map
    ELSE LET key == CHOOSE k \in keys : TRUE
             listeners == SelectSeq2(map[key], namespace)
         IN  removeKeys(IF Len(listeners) > 0 THEN set(map, key, listeners)
                        ELSE delete(map, key),
                        keys \ {key}, namespace)

\* remove visiting every bucket with the test on the namespace inverted.
remove_Inverted(map, namespace) ==
    [k \in { key \in DOMAIN map :
                \E i \in 1..Len(map[key]) : map[key][i].namespace = namespace } |->
        SelectSeq(map[k], LAMBDA a : a.namespace = namespace)]

\* remove visiting every bucket and storing what is kept, without the delete
\* of a bucket left empty.
remove_KeepsEmpty(map, namespace) == [k \in DOMAIN map |-> SelectSeq2(map[k], namespace)]

\* EventManager.remove(namespace) on one registry's map.
remove(map, namespace) == removeKeys(map, forInKeys(map), namespace)

\* -------------------------------------------------------------- Cancelable
\* new Cancelable(event): canceled = false
NewCancelable(event) == [event |-> event, canceled |-> FALSE]

\* Cancelable.cancel()
cancel(c) == [c EXCEPT !.canceled = TRUE]

\* Cancelable.isCanceled()
isCanceled(c) == c.canceled

\* Cancelable.getEvent()
getEvent(c) == c.event

\* ------------------------------------------------------------------- state
NoCall == [op |-> "none", m |-> NoManager, event |-> "", namespace |-> "",
           listener |-> <<>>, args |-> <<>>]
NoResult == [status |-> "none", value |-> <<>>, reason |-> ""]
NoToken == 0

\* The tokens some pending continuation still holds.
Held == { deferred[i] : i \in 1..Len(deferred) }

\* The Cancelable objects still reachable once the last post's token is dropped.
Reachable == [t \in DOMAIN cancelables \cap Held |-> cancelables[t]]

\* post taking for its token a Cancelable that is still referenced.
FreshToken_Reused == IF Held # {} THEN CHOOSE t \in Held : TRUE ELSE 1

\* An id for a new Cancelable object, distinct from every reachable one.
FreshToken == CHOOSE t \in 1..(MaxDeferred + 2) : t \notin Held

Init ==
    /\ eventListeners = [m \in Managers |-> <<>>]
    /\ cancelables = <<>>
    /\ deferred = <<>>
    /\ call = NoCall
    /\ pc = "idle"
    /\ idx = 1
    /\ token = NoToken
    /\ invoked = <<>>
    /\ result = NoResult
    /\ rejected = {}

\* ----------------------------------------------------------------- actions
\* The number of listeners a registry holds.  Every listen call reaches the
\* root, so the root's count is the number of listen calls made.
RECURSIVE Count(_, _)
Count(map, keys) ==
    IF keys = {} THEN 0
    ELSE LET k == CHOOSE k \in keys : TRUE
         IN  Len(map[k]) + Count(map, keys \ {k})

\* A listen call served while a post is between two of its invocations.
Listen_Anytime(m, event, l) ==
    /\ Count(eventListeners["root"], DOMAIN eventListeners["root"]) < MaxListens
    /\ eventListeners' \in listen(eventListeners, m, event, l)
    /\ call' = [NoCall EXCEPT !.op = "listen", !.m = m, !.event = event, !.listener = <<l>>]
    /\ cancelables' = Reachable
    /\ token' = NoToken
    /\ invoked' = <<>>
    /\ result' = NoResult
    /\ rejected' = {}
    /\ UNCHANGED <<deferred, pc, idx>>

\* An external call of m.listen(event, l.callback, l.namespace, l.priority,
\* l.cancelable).
Listen(m, event, l) ==
    /\ pc = "idle"
    /\ Count(eventListeners["root"], DOMAIN eventListeners["root"]) < MaxListens
    /\ eventListeners' \in listen(eventListeners, m, event, l)
    /\ call' = [NoCall EXCEPT !.op = "listen", !.m = m, !.event = event, !.listener = <<l>>]
    /\ cancelables' = Reachable
    /\ token' = NoToken
    /\ invoked' = <<>>
    /\ result' = NoResult
    /\ rejected' = {}
    /\ UNCHANGED <<deferred, pc, idx>>

\* remove filtering every bucket and, as listen does, going on to the parent.
Remove_Cascade(m, namespace) ==
    /\ pc = "idle"
    /\ eventListeners' =
          [k \in Managers |->
              IF k \in Chain(m)
              THEN removeKeys(eventListeners[k], DOMAIN eventListeners[k], namespace)
              ELSE eventListeners[k]]
    /\ call' = [NoCall EXCEPT !.op = "remove", !.m = m, !.namespace = namespace]
    /\ cancelables' = Reachable
    /\ token' = NoToken
    /\ invoked' = <<>>
    /\ result' = NoResult
    /\ rejected' = {}
    /\ UNCHANGED <<deferred, pc, idx>>

\* An external call of m.remove(namespace).
Remove(m, namespace) ==
    /\ pc = "idle"
    /\ eventListeners' = [eventListeners EXCEPT ![m] = remove(@, namespace)]
    /\ call' = [NoCall EXCEPT !.op = "remove", !.m = m, !.namespace = namespace]
    /\ cancelables' = Reachable
    /\ token' = NoToken
    /\ invoked' = <<>>
    /\ result' = NoResult
    /\ rejected' = {}
    /\ UNCHANGED <<deferred, pc, idx>>

\* post fulfilled with an array of its own instead of args.
Fulfilled_Empty(args) == [NoResult EXCEPT !.status = "fulfilled", !.value = <<>>]

\* return args: the promise is fulfilled with the arguments of the call.
Fulfilled(args) == [NoResult EXCEPT !.status = "fulfilled", !.value = args]

\* return Promise.reject('Event canceled!')
Rejected(c) == [NoResult EXCEPT !.status = "rejected", !.reason = CanceledReason]

\* post creating the bucket it does not find, as listen does.
PostStart_Creates(m, event, args) ==
    /\ pc = "idle"
    /\ call' = [NoCall EXCEPT !.op = "post", !.m = m, !.event = event, !.args = args]
    /\ token' = FreshToken
    /\ cancelables' = [t \in DOMAIN Reachable \cup {FreshToken} |->
                          IF t = FreshToken THEN NewCancelable(event) ELSE cancelables[t]]
    /\ invoked' = <<>>
    /\ idx' = 1
    /\ eventListeners' = IF has(eventListeners[m], event) THEN eventListeners
                         ELSE [eventListeners EXCEPT ![m] = set(@, event, <<>>)]
    /\ pc' = "loop"
    /\ result' = NoResult
    /\ UNCHANGED <<deferred, rejected>>

\* An external call of m.post(event, ...args), up to the start of the loop:
\* the token is created, the bucket looked up; without a bucket the promise
\* is fulfilled with args at once.
PostStart(m, event, args) ==
    /\ pc = "idle"
    /\ call' = [NoCall EXCEPT !.op = "post", !.m = m, !.event = event, !.args = args]
    /\ token' = FreshToken
    /\ cancelables' = [t \in DOMAIN Reachable \cup {FreshToken} |->
                          IF t = FreshToken THEN NewCancelable(event) ELSE cancelables[t]]
    /\ invoked' = <<>>
    /\ idx' = 1
    /\ IF has(eventListeners[m], event)
       THEN pc' = "loop" /\ result' = NoResult
       ELSE pc' = "idle" /\ result' = Fulfilled(args)
    /\ UNCHANGED <<eventListeners, deferred, rejected>>

\* post handing the token to every listener.
Handed_Always(listener) == token

\* What post hands a listener before args: the token when it is cancelable.
Handed(listener) == IF listener.cancelable THEN token ELSE NoToken

\* What the callback of a listener can do with what it was handed: only a
\* callback that was handed the token can cancel it.
CanDo(listener) ==
    IF listener.cancelable
    THEN { b \in Behaviours : b = "defer" => Len(deferred) < MaxDeferred }
    ELSE {"return"}

\* What any callback can do besides: throw, register one more listener while
\* the registry has room, and, when it was handed a token and continuations of
\* earlier posts are pending, cancel the tokens they hold.
CanDoMore(listener) ==
    {"throw"}
    \cup (IF Count(eventListeners["root"], DOMAIN eventListeners["root"]) < MaxListens
          THEN {"listen"} ELSE {})
    \cup (IF listener.cancelable /\ Held # {}
             /\ \A k \in 1..Len(invoked) : invoked[k].did # "defer"
          THEN {"stale"} ELSE {})

\* call() waiting for the work the callback deferred, the cancel() in it
\* included.
AfterCall_Awaited(t, b) ==
    CASE b \in {"cancel", "defer"} -> [cancelables EXCEPT ![t] = cancel(@)]
      [] b = "stale" -> [h \in DOMAIN cancelables |->
                            IF h \in Held THEN cancel(cancelables[h]) ELSE cancelables[h]]
      [] OTHER -> cancelables

\* listener.call(...): the Cancelable objects when the callback, handed
\* token t, has done b and returned.  call() does not wait for what the
\* callback deferred.
AfterCall(t, b) ==
    CASE b = "cancel" -> [cancelables EXCEPT ![t] = cancel(@)]
      [] b = "stale" -> [h \in DOMAIN cancelables |->
                            IF h \in Held THEN cancel(cancelables[h]) ELSE cancelables[h]]
      [] OTHER -> cancelables

\* post catching what a callback throws and going on with the next listener.
Propagated_Swallowed(listener) == NoResult

\* A callback throws inside the async post: nothing catches the exception, so
\* the promise is rejected with it.  The value thrown is named after the
\* callback that throws it.
Propagated(listener) ==
    [NoResult EXCEPT !.status = "rejected", !.reason = listener.callback]

\* The registries when the callback has done b: a callback that calls
\* listen(call.event, l...) on the dispatching registry pushes into and sorts
\* the array the loop is iterating.
AfterListen(b) ==
    IF b = "listen"
    THEN UNION { listen(eventListeners, call.m, call.event, l) : l \in ListenArgs }
    ELSE {eventListeners}

\* post without the check of the token after an invocation.
AfterCheck_NoCheck(c) == NoResult

\* post rejecting with the name of the token's event.
AfterCheck_EventName(c) ==
    IF isCanceled(c) THEN [Rejected(c) EXCEPT !.reason = getEvent(c)] ELSE NoResult

\* if (cancelable.isCanceled()) return Promise.reject(...): the promise when
\* the loop stops after an invocation, NoResult when it goes on.
AfterCheck(c) == IF isCanceled(c) THEN Rejected(c) ELSE NoResult

\* One turn of post's for-of loop: the end of the array (return args), or the
\* call of the listener at idx, which propagates what the callback throws,
\* followed by the isCanceled() check.  The loop reads the array by index, so
\* it goes on at idx + 1 of the array as the callback left it.
PostStep(behaviours) ==
    /\ pc = "loop"
    /\ LET listeners == eventListeners[call.m][call.event]
       IN  IF idx > Len(listeners)
           THEN /\ result' = Fulfilled(call.args)
                /\ pc' = "idle"
                /\ UNCHANGED <<eventListeners, cancelables, deferred, idx, invoked, rejected>>
           ELSE \E b \in (CanDo(listeners[idx]) \cup CanDoMore(listeners[idx])) \cap behaviours :
                LET listener == listeners[idx]
                    after == AfterCall(token, b)
                    outcome == IF b = "throw" THEN Propagated(listener)
                               ELSE AfterCheck(after[token])
                IN  /\ cancelables' = after
                    /\ eventListeners' \in AfterListen(b)
                    /\ deferred' = IF b = "defer" THEN Append(deferred, token) ELSE deferred
                    /\ invoked' = Append(invoked, [listener |-> listener, token |-> Handed(listener),
                                                   args |-> call.args, did |-> b])
                    /\ idx' = idx + 1
                    /\ result' = outcome
                    /\ pc' = IF outcome.status = "rejected" THEN "idle" ELSE "loop"
                    /\ rejected' = CASE b = "listen" -> {}
                                     [] b # "throw" /\ outcome.status = "rejected" ->
                                          rejected \cup {[event |-> call.event, reason |-> outcome.reason]}
                                     [] OTHER -> rejected
    /\ UNCHANGED <<call, token>>

\* A pending continuation runs (the stack is empty) and cancels its token.
RunDeferred ==
    /\ pc = "idle"
    /\ deferred # <<>>
    /\ LET t == Head(deferred)
       IN  cancelables' = [cancelables EXCEPT ![t] = cancel(@)]
    /\ deferred' = Tail(deferred)
    /\ UNCHANGED <<eventListeners, call, pc, idx, token, invoked, result, rejected>>

\* Calls on one registry without a parent.
Next ==
    \/ \E event \in Events, l \in ListenArgs : Listen("root", event, l)
    \/ \E namespace \in Namespaces : Remove("root", namespace)
    \/ \E event \in Events, args \in ArgLists : PostStart("root", event, args)
    \/ PostStep(Behaviours)
    \/ RunDeferred

Spec == Init /\ [][Next]_vars

\* Calls on every registry of the chain leaf -> mid -> root: the listen calls
\* for one event, the callbacks without deferred work.
NextTree ==
    \/ \E m \in Managers, l \in ListenArgs :
          /\ Count(eventListeners["root"], DOMAIN eventListeners["root"]) < MaxTreeListens
          /\ Listen(m, "x", l)
    \/ \E m \in Managers, namespace \in Namespaces : Remove(m, namespace)
    \/ \E m \in Managers, event \in Events : PostStart(m, event, <<1, 2>>)
    \/ PostStep({"return", "cancel"})

SpecTree == Init /\ [][NextTree]_vars

\* Calls on one registry whose callbacks can also throw, register listeners
\* during the dispatch and cancel the tokens of earlier posts: the listen
\* calls for one event.
NextCallbacks ==
    \/ \E l \in ListenArgs :
          /\ Count(eventListeners["root"], DOMAIN eventListeners["root"]) < MaxTreeListens
          /\ Listen("root", "x", l)
    \/ \E event \in Events : PostStart("root", event, <<1, 2>>)
    \/ PostStep(Callbacks)
    \/ RunDeferred

SpecCallbacks == Init /\ [][NextCallbacks]_vars

\* ------------------------------------------------------------------ claims
\* The bucket of event in registry m, empty when the map has no such key.
Bucket(m, event) ==
    IF has(eventListeners[m], event) THEN eventListeners[m][event] ELSE <<>>

\* The bucket the running / last post iterates.
Posted == Bucket(call.m, call.event)

\* The last call was a post and its promise is settled.
PostDone == call.op = "post" /\ pc = "idle"

\* The positions of the log at which the callback did b.
Did(b) == { k \in 1..Len(invoked) : invoked[k].did = b }

\* The log is the first Len(invoked) listeners of the bucket, each once.
InBucketOrder ==
    /\ Len(invoked) <= Len(Posted)
    /\ \A k \in 1..Len(invoked) : invoked[k].listener = Posted[k]

TypeOK ==
    /\ pc \in {"idle", "loop"}
    /\ \A m \in Managers : \A e \in DOMAIN eventListeners[m] :
          Len(eventListeners[m][e]) <= MaxListens

\* C1: when a cancelable listener cancels the token during a post, the post
\* has invoked the listeners of the bucket up to that one and no listener after
\* it, however many follow it in the bucket, and the promise is rejected.
C1_CancelStopsDispatch ==
    (call.op = "post" /\ Did("cancel") # {}) =>
        /\ Did("cancel") = {Len(invoked)}
        /\ InBucketOrder
        /\ pc = "idle"
        /\ result.status = "rejected"

\* A post in which B canceled while a listener that is not cancelable was
\* still to come in the bucket.
C1_Witness ==
    /\ PostDone
    /\ Did("cancel") # {}
    /\ Len(invoked) < Len(Posted)
    /\ ~Posted[Len(Posted)].cancelable
    /\ result.status = "rejected"

\* C2: when the listeners of the posted bucket have pairwise distinct
\* priorities, whatever the order they were registered in, the invocations of
\* a post run in strictly ascending priority, and a post nobody cancels
\* invokes all of them.
C2_AscendingPriority ==
    (call.op = "post"
        /\ \A i, j \in 1..Len(Posted) : i # j => Posted[i].priority # Posted[j].priority) =>
        /\ \A i, j \in 1..Len(invoked) :
              i < j => invoked[i].listener.priority < invoked[j].listener.priority
        /\ (PostDone /\ Did("cancel") = {}) => Len(invoked) = Len(Posted)

\* Three listeners of distinct priorities, registered in descending priority,
\* all invoked by one post.
C2_Witness ==
    /\ PostDone
    /\ Len(invoked) = 3
    /\ \A i, j \in 1..3 : i < j =>
          /\ invoked[i].listener.priority < invoked[j].listener.priority
          /\ invoked[i].listener.id > invoked[j].listener.id

C3_WitnessMany ==
    /\ PostDone
    /\ [k \in 1..Len(invoked) |-> invoked[k].listener.callback] = <<"B", "B", "A">>
    /\ invoked[3].listener.id = 1

\* C4 (as claimed): after remove(ns) on a registry, no bucket of that registry
\* holds an entry whose namespace is ns.
C4_RemoveClearsNamespace ==
    call.op = "remove" =>
        \A e \in DOMAIN eventListeners[call.m] :
            \A i \in 1..Len(eventListeners[call.m][e]) :
                eventListeners[call.m][e][i].namespace # call.namespace

\* C5: after listen(event, callback, namespace, priority, cancelable) on a
\* registry, that registry and every ancestor of it hold in the bucket of
\* event a newly created entry with those five values; and a post that ends
\* fulfilled has invoked every entry of its bucket, the ones registered
\* through a descendant included.
C5_ListenCascades ==
    /\ call.op = "listen" =>
          \A k \in Chain(call.m) :
              /\ has(eventListeners[k], call.event)
              /\ \E i \in 1..Len(eventListeners[k][call.event]) :
                    LET b == eventListeners[k][call.event]
                    IN  /\ Fields(b[i]) = call.listener[1]
                        /\ b[i].origin = call.m
                        /\ \A j \in 1..Len(b) : b[j].id <= b[i].id
    /\ (PostDone /\ result.status = "fulfilled") =>
          \A i \in 1..Len(Posted) :
              Posted[i].origin # call.m =>
                  \E k \in 1..Len(invoked) : invoked[k].listener = Posted[i]

\* A post on the root has invoked a callback registered on the leaf, two
\* registries below it.
C5_Witness ==
    /\ PostDone
    /\ call.m = "root"
    /\ \E k \in 1..Len(invoked) : invoked[k].listener.origin = "leaf"
    /\ Bucket("mid", call.event) # <<>>

\* C6: remove(ns) on a registry leaves the map of every ancestor of that
\* registry as it was.
C6_RemoveLeavesAncestors ==
    [][call'.op = "remove" =>
         \A k \in Ancestors(call'.m) : eventListeners'[k] = eventListeners[k]]_vars

\* remove(ns) was called on the leaf while its parent held an entry of
\* namespace ns that a listen on the leaf had pushed there, and still holds it.
C6_Witness ==
    /\ call.op = "remove"
    /\ call.m = "leaf"
    /\ \E i \in 1..Len(Bucket("mid", "x")) :
          /\ Bucket("mid", "x")[i].origin = "leaf"
          /\ Bucket("mid", "x")[i].namespace = call.namespace

C10_PostWithoutBucket ==
    [][(call'.op = "post" /\ ~has(eventListeners[call'.m], call'.event)) =>
         /\ eventListeners' = eventListeners
         /\ invoked' = <<>>
         /\ pc' = "idle"
         /\ result'.status = "fulfilled"
         /\ result'.value = call'.args]_vars

\* post("y", 1, 2) on a registry that holds listeners for "x" alone.
C10_Witness ==
    /\ PostDone
    /\ ~has(eventListeners[call.m], call.event)
    /\ Bucket(call.m, "x") # <<>>
    /\ call.args = <<1, 2>>
    /\ result.value = <<1, 2>>
    /\ invoked = <<>>

\* C11: remove(ns) on a registry keeps, in every bucket of that registry, the
\* entries whose namespace is not ns: the same entries in the same order.
C11_RemoveKeepsOthers ==
    [][call'.op = "remove" =>
         \A e \in DOMAIN eventListeners[call'.m] :
             SelectSeq2(IF has(eventListeners'[call'.m], e)
                        THEN eventListeners'[call'.m][e] ELSE <<>>, call'.namespace)
             = SelectSeq2(eventListeners[call'.m][e], call'.namespace)]_vars

\* remove("n1") on a bucket that holds a listener of "n2" before one of "n1".
C11_Witness ==
    /\ call.op = "remove"
    /\ call.namespace = "n1"
    /\ Len(Bucket(call.m, "x")) = 2
    /\ Bucket(call.m, "x")[1].namespace = "n2"
    /\ Bucket(call.m, "x")[2].namespace = "n1"

\* C12: no key of a registry's map maps to an empty array.
C12_NoEmptyBucket ==
    \A m \in Managers : \A e \in DOMAIN eventListeners[m] : Len(eventListeners[m][e]) > 0

\* remove(ns) was called on a registry with a bucket holding listeners of ns
\* alone, and with no bucket for the other event.
C12_Witness ==
    /\ call.op = "remove"
    /\ Bucket(call.m, "x") # <<>>
    /\ SelectSeq2(Bucket(call.m, "x"), call.namespace) = <<>>
    /\ ~has(eventListeners[call.m], "y")

\* C13: within one post every cancelable listener is handed the token of that
\* post before the arguments of the call and every other listener the
\* arguments alone; the token is one object for the whole post, carries the
\* posted event name, and when the loop starts it is not canceled and held
\* by nothing that ran before.
C13_TokenHanded ==
    call.op = "post" =>
        /\ token \in DOMAIN cancelables
        /\ getEvent(cancelables[token]) = call.event
        /\ \A k \in 1..Len(invoked) :
              /\ invoked[k].args = call.args
              /\ invoked[k].token = IF invoked[k].listener.cancelable THEN token ELSE NoToken
        /\ (pc = "loop" /\ invoked = <<>>) =>
              (~isCanceled(cancelables[token]) /\ token \notin Held)

\* post("x", 1, 2) that has invoked two cancelable listeners and one that is
\* not.
C13_Witness ==
    /\ PostDone
    /\ call.args = <<1, 2>>
    /\ Len(invoked) = 3
    /\ Cardinality({ k \in 1..3 : invoked[k].listener.cancelable }) = 2
    /\ \A k \in 1..3 : invoked[k].args = <<1, 2>>

\* C14 (as claimed): entries of one bucket with the same priority and the
\* same cancelable flag are stored in the order they were registered in.
C14_TiesKeepRegistrationOrder ==
    \A m \in Managers : \A e \in DOMAIN eventListeners[m] :
        \A i, j \in 1..Len(eventListeners[m][e]) :
            LET a == eventListeners[m][e][i]
                b == eventListeners[m][e][j]
            IN  (i < j /\ a.priority = b.priority /\ a.cancelable = b.cancelable)
                    => a.id < b.id

\* C17: a listen call stores a new entry also when the bucket already holds
\* the callback, and a post nobody cancels invokes a callback as many times as
\* the bucket holds it.
C17_DuplicatesStored ==
    /\ [][(call'.op = "listen" /\ (call' # call \/ eventListeners' # eventListeners)) =>
                Len(eventListeners'[call'.m][call'.event])
                = Len(Bucket(call'.m, call'.event)) + 1]_vars
    /\ [](PostDone /\ Did("cancel") = {} =>
            \A l \in ListenArgs :
                Cardinality({ k \in 1..Len(invoked) : invoked[k].listener.callback = l.callback })
                = Cardinality({ i \in 1..Len(Posted) : Posted[i].callback = l.callback }))

\* A post that invoked the callback A twice, through two entries.
C17_Witness ==
    /\ PostDone
    /\ Len(invoked) = 2
    /\ invoked[1].listener.callback = "A"
    /\ invoked[2].listener.callback = "A"
    /\ invoked[1].listener # invoked[2].listener

C15_CancelLocal ==
    call.op = "post" =>
        /\ (pc = "loop" /\ invoked = <<>>) =>
              (~isCanceled(cancelables[token]) /\ token \notin Held)
        /\ (Did("cancel") = {} /\ Did("throw") = {}) =>
              /\ result.status # "rejected"
              /\ pc = "loop" => ~isCanceled(cancelables[token])
              /\ pc = "idle" => result.status = "fulfilled"

\* A post during which a callback canceled the token of an earlier post, kept
\* by a pending continuation, has gone on to a later listener and is fulfilled.
C15_Witness ==
    /\ PostDone
    /\ \E k \in Did("stale") : k < Len(invoked)
    /\ result.status = "fulfilled"
    /\ ~isCanceled(cancelables[token])
    /\ \E t \in DOMAIN cancelables : t # token /\ isCanceled(cancelables[t])

\* C16: when a callback throws during a post, the promise is rejected with
\* what it threw, the throwing listener is the last one the post invokes, and
\* the call that throws leaves every registry as it was.
C16_ThrowPropagates ==
    /\ []((call.op = "post" /\ Did("throw") # {}) =>
            /\ Did("throw") = {Len(invoked)}
            /\ pc = "idle"
            /\ result.status = "rejected"
            /\ result.reason = invoked[Len(invoked)].listener.callback)
    /\ [][(Len(invoked') = Len(invoked) + 1 /\ invoked'[Len(invoked')].did = "throw")
            => eventListeners' = eventListeners]_vars

\* The second of three listeners threw: the post is rejected and the third
\* was not invoked.
C16_Witness ==
    /\ PostDone
    /\ Len(Posted) = 3
    /\ Len(invoked) = 2
    /\ invoked[2].did = "throw"
    /\ invoked[1].listener = Posted[1] /\ invoked[2].listener = Posted[2]
    /\ result.status = "rejected"
    /\ result.reason = Posted[2].callback

\* C18: while the loop of a post is running no other external call is
\* served: the call and its token stay, the log grows by the invocations of
\* this post alone, and the registries change only by a listen that the
\* callback just invoked made itself.
C18_NoInterleaving ==
    [][pc = "loop" =>
         /\ call' = call
         /\ token' = token
         /\ \/ (Len(invoked') = Len(invoked) + 1 /\ SubSeq(invoked', 1, Len(invoked)) = invoked)
            \/ (invoked' = invoked /\ pc' = "idle")
         /\ eventListeners' # eventListeners =>
              (Len(invoked') = Len(invoked) + 1 /\ invoked'[Len(invoked')].did = "listen")]_vars

\* A post between two of its invocations while a continuation of an earlier
\* post is waiting to run.
C18_Witness ==
    /\ pc = "loop"
    /\ Len(invoked) = 1
    /\ idx <= Len(Posted)
    /\ deferred # <<>>
    /\ Head(deferred) # token

\* C20 (as claimed): a post invokes no entry of the bucket twice, also when
\* a callback registers a listener for the posted event during the dispatch.
C20_AtMostOncePerPost ==
    call.op = "post" =>
        \A i, j \in 1..Len(invoked) : i # j => invoked[i].listener # invoked[j].listener
====
